---- MODULE Spec2Model ----
(***************************************************************************)
(* A model of the watch-list tool (wl): one process invocation, from the   *)
(* load of the storage file, through clap's argument parsing and the       *)
(* dispatched subcommand, to the final write-back and the exit code.       *)
(*                                                                         *)
(* Text is modelled as a sequence of Unicode code points, so that          *)
(* lower-casing, trimming, substring search and integer parsing are        *)
(* computed as the Rust standard library computes them.  List titles are   *)
(* only ever compared for equality and are kept as TLA+ strings.           *)
(***************************************************************************)
EXTENDS Integers, Sequences, FiniteSets, TLC

VARIABLES
    argv,        \* the process arguments (in SpecCore: the call made last)
    disk,        \* what the storage path holds
    loadResult,  \* what WatchList::from_file returned
    loaded,      \* the collection as main bound it after the load
                 \* (in SpecCore: the collection before the call made last)
    watchlists,  \* the in-memory collection
    pc,          \* where the process is
    result,      \* what cli_run returned (in SpecCore: the call's Result)
    out,         \* what was printed, in order
    writes,      \* the number of calls of to_file
    saved,       \* what to_file returned
    exitCode,    \* the exit code, -1 while the process runs
    i,           \* cli_run, add: the number of items done
    results,     \* what list_search returned
    index,       \* cli_delete: the index the selection loop broke with
    line,        \* the raw line the console read last
    prompts      \* the number of console reads so far

vars == <<argv, disk, loadResult, loaded, watchlists, pc, result, out, writes,
          saved, exitCode, i, results, index, line, prompts>>

(***************************************************************************)
(* Bounds of the model.                                                    *)
(***************************************************************************)
\* longest item sequence of a list in the storage file at start-up
MaxListLen == 3
\* largest number of item arguments given to the add subcommand
MaxAdd == 3
\* largest number of console reads of one invocation
MaxPrompts == 2

(***************************************************************************)
(* Text.                                                                   *)
(***************************************************************************)
\* All sequences over S of length lo..hi.
SeqsOf(S, lo, hi) == UNION {[1..n -> S] : n \in lo..hi}

\* char::to_ascii_lowercase: only 'A'..'Z' are mapped.
AsciiLowerChar(c) == IF c \in 65..90 THEN c + 32 ELSE c

\* char::to_lowercase on Basic Latin and Latin-1: 'A'..'Z' and the upper-case
\* letters U+00C0..U+00DE (U+00D7, the multiplication sign, is no letter).
LowerChar(c) ==
    IF c \in 65..90 THEN c + 32
    ELSE IF c \in (192..222) \ {215} THEN c + 32
    ELSE c

to_ascii_lowercase(s) == [k \in 1..Len(s) |-> AsciiLowerChar(s[k])]

to_lowercase(s) == [k \in 1..Len(s) |-> LowerChar(s[k])]

\* str::contains(&str): the needle occurs at some offset of the haystack.
contains(hay, needle) ==
    \E o \in 0..(Len(hay) - Len(needle)) :
        \A k \in 1..Len(needle) : hay[o + k] = needle[k]

\* char::is_whitespace on Basic Latin and Latin-1.
WhiteSpace == (9..13) \cup {32, 133, 160}

RECURSIVE TrimStart(_)
TrimStart(s) ==
    IF s # <<>> /\ Head(s) \in WhiteSpace THEN TrimStart(Tail(s)) ELSE s

RECURSIVE TrimEnd(_)
TrimEnd(s) ==
    IF s # <<>> /\ s[Len(s)] \in WhiteSpace
    THEN TrimEnd(SubSeq(s, 1, Len(s) - 1))
    ELSE s

\* str::trim
trim(s) == TrimEnd(TrimStart(s))

IsDigits(s) == \A k \in 1..Len(s) : s[k] \in 48..57

RECURSIVE DigitsValue(_)
DigitsValue(s) ==
    IF s = <<>> THEN 0
    ELSE 10 * DigitsValue(SubSeq(s, 1, Len(s) - 1)) + (s[Len(s)] - 48)

\* str::parse::<usize>: an optional '+', then one or more decimal digits;
\* anything else (the empty string, a sign alone, '-', a letter) is an error,
\* given here as -1.  The model's lines are far too short to overflow.
parse_usize(s) ==
    LET body == IF s # <<>> /\ Head(s) = 43 THEN Tail(s) ELSE s
    IN  IF body # <<>> /\ IsDigits(body) THEN DigitsValue(body) ELSE -1

(***************************************************************************)
(* The watch-list collection: a function from the titles present to item   *)
(* sequences (HashMap<String, Vec<String>>), and the errors of the core.   *)
(***************************************************************************)
NoTitle == ""
NoItem == <<>>

Outcome(tag, title, item) == [tag |-> tag, title |-> title, item |-> item]

Ok == Outcome("Ok", NoTitle, NoItem)
Pending == Outcome("Pending", NoTitle, NoItem)
NoTitles == Outcome("NoTitles", NoTitle, NoItem)
EmptyList(t) == Outcome("EmptyList", t, NoItem)
TitleAlreadyPresent(t) == Outcome("TitleAlreadyPresent", t, NoItem)
TitleNotPresent(t) == Outcome("TitleNotPresent", t, NoItem)
ItemAlreadyPresent(it, t) == Outcome("ItemAlreadyPresent", t, it)
ItemToRemoveNotPresent(it) == Outcome("ItemToRemoveNotPresent", NoTitle, it)
IOError == Outcome("IOError", NoTitle, NoItem)

EmptyWatchList == [t \in {} |-> <<>>]

Insert(w, t, v) == [x \in DOMAIN w \cup {t} |-> IF x = t THEN v ELSE w[x]]

RemoveKey(w, t) == [x \in DOMAIN w \ {t} |-> w[x]]

\* Position as Iterator::rposition would give it: the highest index.
PositionLast(list, item) ==
    IF \E k \in 1..Len(list) : list[k] = item
    THEN CHOOSE k \in 1..Len(list) :
             list[k] = item /\ \A j \in (k + 1)..Len(list) : list[j] # item
    ELSE 0

\* Iterator::position(|l| l == item): the lowest index holding item, 0 for None.
Position(list, item) ==
    IF \E k \in 1..Len(list) : list[k] = item
    THEN CHOOSE k \in 1..Len(list) :
             list[k] = item /\ \A j \in 1..(k - 1) : list[j] # item
    ELSE 0

\* Vec::remove(index), 1-based here.
RemoveAt(list, k) == SubSeq(list, 1, k - 1) \o SubSeq(list, k + 1, Len(list))

\* A core operation gives its Result and the collection it leaves.
Ret(res, w) == [res |-> res, w |-> w]

\* item_add with the flag read the other way round (as the trait's name for
\* the parameter, no_duplicate, would have it).
item_add_no_duplicate(w, title, item, no_duplicate) ==
    IF title \notin DOMAIN w THEN Ret(TitleNotPresent(title), w)
    ELSE IF ~no_duplicate THEN Ret(Ok, Insert(w, title, Append(w[title], item)))
    ELSE IF Position(w[title], item) # 0
         THEN Ret(ItemAlreadyPresent(item, title), w)
         ELSE Ret(Ok, Insert(w, title, Append(w[title], item)))

item_add(w, title, item, add_duplicate) ==
    IF title \notin DOMAIN w THEN Ret(TitleNotPresent(title), w)
    ELSE IF add_duplicate THEN Ret(Ok, Insert(w, title, Append(w[title], item)))
    ELSE IF Position(w[title], item) # 0
         THEN Ret(ItemAlreadyPresent(item, title), w)
         ELSE Ret(Ok, Insert(w, title, Append(w[title], item)))

item_remove(w, title, item) ==
    IF title \notin DOMAIN w THEN Ret(TitleNotPresent(title), w)
    ELSE IF Position(w[title], item) = 0
         THEN Ret(ItemToRemoveNotPresent(item), w)
         ELSE Ret(Ok, Insert(w, title, RemoveAt(w[title], Position(w[title], item))))

\* The Result alone; on Ok the caller reads w[title].
item_get_all(w, title) ==
    IF title \notin DOMAIN w THEN TitleNotPresent(title)
    ELSE IF w[title] = <<>> THEN EmptyList(title)
    ELSE Ok

\* The Result alone; on Ok the caller draws any element of w[title].
item_get_random(w, title) ==
    IF title \notin DOMAIN w THEN TitleNotPresent(title)
    ELSE IF w[title] = <<>> THEN EmptyList(title)
    ELSE Ok

list_add(w, title) ==
    IF title \in DOMAIN w THEN Ret(TitleAlreadyPresent(title), w)
    ELSE Ret(Ok, Insert(w, title, <<>>))

list_remove(w, title) ==
    IF title \notin DOMAIN w THEN Ret(TitleNotPresent(title), w)
    ELSE Ret(Ok, RemoveKey(w, title))

\* list_get_all without the is_empty test.
list_get_all_unchecked(w) == Ok

\* The Result alone; on Ok the keys are DOMAIN w, in an order HashMap chooses.
list_get_all(w) == IF DOMAIN w = {} THEN NoTitles ELSE Ok

list_get_random(w) == list_get_all(w)

\* The filter of list_search: the item is lower-cased by to_ascii_lowercase,
\* the search string by to_lowercase.
Matches(item, search) == contains(to_ascii_lowercase(item), to_lowercase(search))

\* The Result and, on Ok, the matching items in list order.
list_search(w, title, search) ==
    IF title \notin DOMAIN w THEN [res |-> TitleNotPresent(title), found |-> <<>>]
    ELSE [res |-> Ok,
          found |-> SelectSeq(w[title], LAMBDA it : Matches(it, search))]

(***************************************************************************)
(* The console helper.                                                     *)
(***************************************************************************)
\* What input(prompt, trim_input) returns once read_line has read raw_line.
input(raw_line, trim_input) == IF trim_input THEN trim(raw_line) ELSE raw_line

(***************************************************************************)
(* The inputs of one invocation.                                           *)
(***************************************************************************)
Titles == {"Movies", "Manga"}

\* "Ab", "b", and U+00C9 (E with acute, an upper-case letter outside ASCII)
Items == {<<65, 98>>, <<98>>, <<201>>}

\* "", "a", "B", "Ab", U+00C9, U+00E9 (its lower case), "x"
Prompts == {<<>>, <<97>>, <<66>>, <<65, 98>>, <<201>>, <<233>>, <<120>>}

\* What read_line can leave in the buffer: nothing at end of input, else a
\* line with its newline: "\n", "1\n", " 2 \n", "+3\n", "0\n", "9\n", "x\n",
\* "y\n", " Y\n", "n\n", "yes\n"
Lines == {<<>>, <<10>>, <<49, 10>>, <<32, 50, 32, 10>>, <<43, 51, 10>>,
          <<48, 10>>, <<57, 10>>, <<120, 10>>, <<121, 10>>, <<32, 89, 10>>,
          <<110, 10>>, <<121, 101, 115, 10>>}

\* The item sequences a stored list can hold at start-up.
ListsOf(t) ==
    IF t = "Movies" THEN SeqsOf(Items, 0, MaxListLen) ELSE {<<>>, << <<98>> >>}

Collections ==
    UNION {{w \in [D -> SeqsOf(Items, 0, MaxListLen)] :
               \A t \in D : w[t] \in ListsOf(t)} : D \in SUBSET Titles}

\* The storage path at start-up: a file holding a collection, no file, a
\* directory, or a file that cannot be read or decoded.
DiskStates ==
    {[kind |-> "file", data |-> w] : w \in Collections}
    \cup {[kind |-> k, data |-> EmptyWatchList] : k \in {"absent", "dir", "bad"}}

\* The process arguments, as the fields of the clap structs they would fill.
Req(cmd, hasList, list, items, flag, hasPrompt, prompt) ==
    [cmd |-> cmd, hasList |-> hasList, list |-> list, items |-> items,
     flag |-> flag, hasPrompt |-> hasPrompt, prompt |-> prompt]

Requests ==
    {Req("new", TRUE, t, <<>>, FALSE, FALSE, <<>>) : t \in Titles}
    \cup {Req("add", TRUE, t, its, f, FALSE, <<>>) :
             t \in Titles, its \in SeqsOf(Items, 0, MaxAdd), f \in BOOLEAN}
    \cup {Req("show", TRUE, t, <<>>, f, FALSE, <<>>) : t \in Titles, f \in BOOLEAN}
    \cup {Req("show", FALSE, NoTitle, <<>>, f, FALSE, <<>>) : f \in BOOLEAN}
    \cup {Req("random", TRUE, t, <<>>, FALSE, FALSE, <<>>) : t \in Titles}
    \cup {Req("random", FALSE, NoTitle, <<>>, FALSE, FALSE, <<>>)}
    \cup {Req("delete", TRUE, t, <<>>, FALSE, TRUE, p) : t \in Titles, p \in Prompts}
    \cup {Req("delete", TRUE, t, <<>>, FALSE, FALSE, <<>>) : t \in Titles}
    \cup {Req("search", TRUE, t, <<>>, FALSE, TRUE, p) : t \in Titles, p \in Prompts}
    \cup {Req(c, FALSE, NoTitle, <<>>, FALSE, FALSE, <<>>) : c \in {"help", "bogus"}}

\* Cli::parse(): "ok" when the arguments fill a subcommand struct, "help"
\* for --help / --version, "usage" for what the grammar rejects: an unknown
\* subcommand, add without items (required = true), show with both a list
\* and --all-items (the ArgGroup "show").
ParseOutcome(a) ==
    IF a.cmd = "bogus" THEN "usage"
    ELSE IF a.cmd = "help" THEN "help"
    ELSE IF a.cmd = "add" /\ a.items = <<>> THEN "usage"
    ELSE IF a.cmd = "show" /\ a.hasList /\ a.flag THEN "usage"
    ELSE "ok"

\* The orders in which a HashMap may yield the keys S.
Orders(S) ==
    {o \in [1..Cardinality(S) -> S] : \A a, b \in DOMAIN o : o[a] = o[b] => a = b}

PrintLine(text) == <<"line", text>>
PrintItem(item) == <<"item", item>>
PrintError(res) == <<"eprint", res.tag>>

\* list_display(list, title) on item texts.
list_display(list, title) == <<"list", title, list>>

\* list_display(list, title) on list titles.
titles_display(list, title) == <<"titles", title, list>>

Init ==
    /\ argv \in Requests
    /\ disk \in DiskStates
    /\ loadResult = "Pending"
    /\ loaded = EmptyWatchList
    /\ watchlists = EmptyWatchList
    /\ pc = "load"
    /\ result = Pending
    /\ out = <<>>
    /\ writes = 0
    /\ saved = Pending
    /\ exitCode = -1
    /\ i = 0
    /\ results = <<>>
    /\ index = 0
    /\ line = <<>>
    /\ prompts = 0

(***************************************************************************)
(* main: load.                                                             *)
(***************************************************************************)
\* WatchList::from_file on the storage path, as main tells its results
\* apart: Ok, ErrorKind::NotFound, raw_os_error() == Some(21), any other.
from_file(d) ==
    CASE d.kind = "file" -> "Ok"
      [] d.kind = "absent" -> "NotFound"
      [] d.kind = "dir" -> "IsADirectory"
      [] OTHER -> "Other"

\* main's match without the arm for raw_os_error() == Some(21): a directory
\* falls to the last arm.
ExitOnLoadNoDirectoryArm(r) ==
    CASE r \in {"Ok", "NotFound"} -> -1
      [] OTHER -> 1

\* The arms of main's match on the load: the exit code the arm returns with,
\* -1 for the arms that go on (with the collection read, or an empty one).
ExitOnLoad(r) ==
    CASE r \in {"Ok", "NotFound"} -> -1
      [] r = "IsADirectory" -> 0
      [] OTHER -> 1

Load ==
    /\ pc = "load"
    /\ loadResult' = from_file(disk)
    /\ \/ /\ ExitOnLoad(loadResult') = -1
          /\ watchlists' = disk.data
          /\ loaded' = disk.data
          /\ pc' = "parse"
          /\ UNCHANGED <<out, exitCode>>
       \/ /\ ExitOnLoad(loadResult') = 0
          /\ out' = Append(out, PrintLine("Error! Couldnt Find File!"))
          /\ exitCode' = 0
          /\ pc' = "exit"
          /\ UNCHANGED <<watchlists, loaded>>
       \/ /\ ExitOnLoad(loadResult') > 0
          /\ exitCode' = ExitOnLoad(loadResult')
          /\ pc' = "exit"
          /\ UNCHANGED <<watchlists, loaded, out>>
    /\ UNCHANGED <<argv, disk, result, writes, saved, i, results, index,
                   line, prompts>>

(***************************************************************************)
(* cli_run: Cli::parse() ends the process itself on help and on a usage    *)
(* error.                                                                  *)
(***************************************************************************)
Parse ==
    /\ pc = "parse"
    /\ \/ /\ ParseOutcome(argv) = "ok"
          /\ pc' = "dispatch"
          /\ UNCHANGED exitCode
       \/ /\ ParseOutcome(argv) = "help"
          /\ exitCode' = 0
          /\ pc' = "exit"
       \/ /\ ParseOutcome(argv) = "usage"
          /\ exitCode' = 2
          /\ pc' = "exit"
    /\ UNCHANGED <<argv, disk, loadResult, loaded, saved, watchlists, result,
                   out, writes, i, results, index, line, prompts>>

\* cli_run returns res to main.
Return(res) == result' = res /\ pc' = "report"

RunNew ==
    /\ pc = "dispatch"
    /\ argv.cmd = "new"
    /\ LET r == list_add(watchlists, argv.list)
       IN  /\ watchlists' = r.w
           /\ out' = IF r.res = Ok THEN Append(out, PrintLine("List Created!")) ELSE out
           /\ Return(r.res)
    /\ UNCHANGED <<argv, disk, loadResult, loaded, saved, writes, exitCode,
                   i, results, index, line, prompts>>

\* The for loop over add.items without the `?`: a failed addition is passed
\* over and the loop goes on.
AddItemKeepGoing ==
    /\ pc = "dispatch"
    /\ argv.cmd = "add"
    /\ i < Len(argv.items)
    /\ watchlists' = item_add(watchlists, argv.list, argv.items[i + 1], argv.flag).w
    /\ i' = i + 1
    /\ UNCHANGED <<argv, disk, loadResult, loaded, saved, result, pc, out, writes,
                   exitCode, results, index, line, prompts>>

\* One turn of the for loop over add.items; i items are done.
AddItem ==
    /\ pc = "dispatch"
    /\ argv.cmd = "add"
    /\ i < Len(argv.items)
    /\ LET r == item_add(watchlists, argv.list, argv.items[i + 1], argv.flag)
       IN  /\ watchlists' = r.w
           /\ \/ /\ r.res = Ok
                 /\ i' = i + 1
                 /\ UNCHANGED <<result, pc>>
              \/ /\ r.res # Ok
                 /\ Return(r.res)
                 /\ UNCHANGED i
    /\ UNCHANGED <<argv, disk, loadResult, loaded, saved, out, writes,
                   exitCode, results, index, line, prompts>>

AddDone ==
    /\ pc = "dispatch"
    /\ argv.cmd = "add"
    /\ i = Len(argv.items)
    /\ out' = Append(out, PrintLine("Item(s) Added!"))
    /\ Return(Ok)
    /\ UNCHANGED <<argv, disk, loadResult, loaded, saved, watchlists, writes,
                   exitCode, i, results, index, line, prompts>>

\* The lists show --all-items renders, for the key order o.
RECURSIVE AllItemsOutput(_, _)
AllItemsOutput(w, o) ==
    IF o = <<>> THEN <<>>
    ELSE (IF w[Head(o)] # <<>>
          THEN <<list_display(w[Head(o)], Head(o)), PrintLine("")>>
          ELSE <<>>) \o AllItemsOutput(w, Tail(o))

RunShow ==
    /\ pc = "dispatch"
    /\ argv.cmd = "show"
    /\ \/ /\ list_get_all(watchlists) # Ok
          /\ Return(list_get_all(watchlists))
          /\ UNCHANGED out
       \/ /\ list_get_all(watchlists) = Ok
          /\ argv.flag
          /\ \E o \in Orders(DOMAIN watchlists) :
                 out' = out \o AllItemsOutput(watchlists, o)
          /\ Return(Ok)
       \/ /\ list_get_all(watchlists) = Ok
          /\ ~argv.flag
          /\ argv.hasList
          /\ LET r == item_get_all(watchlists, argv.list)
             IN  /\ out' = IF r = Ok
                           THEN Append(out, list_display(watchlists[argv.list], argv.list))
                           ELSE out
                 /\ Return(r)
       \/ /\ list_get_all(watchlists) = Ok
          /\ ~argv.flag
          /\ ~argv.hasList
          /\ \E o \in Orders(DOMAIN watchlists) :
                 out' = Append(out, titles_display(o, "All Lists"))
          /\ Return(Ok)
    /\ UNCHANGED <<argv, disk, loadResult, loaded, saved, watchlists, writes,
                   exitCode, i, results, index, line, prompts>>

RunRandomNamed ==
    /\ pc = "dispatch"
    /\ argv.cmd = "random"
    /\ argv.hasList
    /\ LET r == item_get_random(watchlists, argv.list)
       IN  /\ \/ /\ r = Ok
                 /\ \E k \in 1..Len(watchlists[argv.list]) :
                        out' = Append(out, PrintItem(watchlists[argv.list][k]))
              \/ /\ r # Ok
                 /\ UNCHANGED out
           /\ Return(r)
    /\ UNCHANGED <<argv, disk, loadResult, loaded, saved, watchlists, writes,
                   exitCode, i, results, index, line, prompts>>

\* random without a name and without the retry: one title is drawn and
\* item_get_random's Result for it is returned, EmptyList too.
RunRandomAnyNoRetry ==
    /\ pc = "dispatch"
    /\ argv.cmd = "random"
    /\ ~argv.hasList
    /\ \/ /\ list_get_random(watchlists) # Ok
          /\ Return(list_get_random(watchlists))
          /\ UNCHANGED out
       \/ /\ list_get_random(watchlists) = Ok
          /\ \E t \in DOMAIN watchlists :
                 /\ Return(item_get_random(watchlists, t))
                 /\ \/ /\ watchlists[t] = <<>>
                       /\ UNCHANGED out
                    \/ \E k \in 1..Len(watchlists[t]) :
                           out' = Append(out, PrintItem(watchlists[t][k]))
    /\ UNCHANGED <<argv, disk, loadResult, loaded, saved, watchlists, writes,
                   exitCode, i, results, index, line, prompts>>

\* One turn of the loop of random without a name.
RunRandomAny ==
    /\ pc = "dispatch"
    /\ argv.cmd = "random"
    /\ ~argv.hasList
    /\ \/ /\ list_get_random(watchlists) # Ok
          /\ Return(list_get_random(watchlists))
          /\ UNCHANGED out
       \/ /\ list_get_random(watchlists) = Ok
          /\ \E t \in DOMAIN watchlists :
                 /\ watchlists[t] # <<>>
                 /\ item_get_random(watchlists, t) = Ok
                 /\ \E k \in 1..Len(watchlists[t]) :
                        out' = Append(out, PrintItem(watchlists[t][k]))
          /\ Return(Ok)
       \/ /\ list_get_random(watchlists) = Ok
          /\ \E t \in DOMAIN watchlists : watchlists[t] = <<>>
          /\ UNCHANGED <<result, pc, out>>
    /\ UNCHANGED <<argv, disk, loadResult, loaded, saved, watchlists, writes,
                   exitCode, i, results, index, line, prompts>>

RunSearch ==
    /\ pc = "dispatch"
    /\ argv.cmd = "search"
    /\ LET r == list_search(watchlists, argv.list, argv.prompt)
       IN  /\ results' = r.found
           /\ out' = IF r.res # Ok THEN out
                     ELSE IF r.found = <<>> THEN Append(out, PrintLine("No Matches"))
                     ELSE Append(out, list_display(r.found, "Matches"))
           /\ Return(r.res)
    /\ UNCHANGED <<argv, disk, loadResult, loaded, saved, watchlists, writes,
                   exitCode, i, index, line, prompts>>

(***************************************************************************)
(* cli_delete with a prompt: search, then the selection loop, then the     *)
(* removal.                                                                *)
(***************************************************************************)
DeleteSearch ==
    /\ pc = "dispatch"
    /\ argv.cmd = "delete"
    /\ argv.hasPrompt
    /\ LET r == list_search(watchlists, argv.list, argv.prompt)
       IN  /\ results' = r.found
           /\ \/ /\ r.res # Ok
                 /\ Return(r.res)
                 /\ UNCHANGED out
              \/ /\ r.res = Ok
                 /\ r.found = <<>>
                 /\ out' = Append(out, PrintLine("No Matches"))
                 /\ Return(Ok)
              \/ /\ r.res = Ok
                 /\ r.found # <<>>
                 /\ out' = Append(out, list_display(r.found, "Matched Items"))
                 /\ pc' = "select"
                 /\ UNCHANGED result
    /\ UNCHANGED <<argv, disk, loadResult, loaded, saved, watchlists, writes,
                   exitCode, i, index, line, prompts>>

\* The loop breaking with 1 on every accepted response.
SelectionFirstOnly(text, n_results) ==
    IF text = <<>> THEN 1
    ELSE IF 0 < parse_usize(text) /\ parse_usize(text) <= n_results
         THEN 1
         ELSE 0

\* The loop without its default: an empty response asks again.
SelectionNoDefault(text, n_results) ==
    IF 0 < parse_usize(text) /\ parse_usize(text) <= n_results
    THEN parse_usize(text)
    ELSE 0

\* The index the loop breaks with for the text the console helper returned,
\* 0 when the loop goes round again.
Selection(text, n_results) ==
    IF text = <<>> THEN 1
    ELSE IF 0 < parse_usize(text) /\ parse_usize(text) <= n_results
         THEN parse_usize(text)
         ELSE 0

\* One turn of the selection loop: a console read, then the validation.
SelectRead ==
    /\ pc = "select"
    /\ prompts < MaxPrompts
    /\ prompts' = prompts + 1
    /\ \/ /\ Return(IOError)
          /\ UNCHANGED <<line, index>>
       \/ \E l \in Lines :
              /\ line' = l
              /\ index' = Selection(input(l, TRUE), Len(results))
              /\ pc' = IF index' # 0 THEN "remove" ELSE "select"
              /\ UNCHANGED result
    /\ UNCHANGED <<argv, disk, loadResult, loaded, saved, watchlists, out,
                   writes, exitCode, i, results>>

DeleteItem ==
    /\ pc = "remove"
    /\ LET r == item_remove(watchlists, argv.list, results[index])
       IN  /\ watchlists' = r.w
           /\ out' = IF r.res = Ok THEN Append(out, PrintLine("Item Deleted")) ELSE out
           /\ Return(r.res)
    /\ UNCHANGED <<argv, disk, loadResult, loaded, saved, writes, exitCode,
                   i, results, index, line, prompts>>

(***************************************************************************)
(* cli_delete without a prompt: the confirmation, then the removal of the  *)
(* list.                                                                   *)
(***************************************************************************)
ConfirmRead ==
    /\ pc = "dispatch"
    /\ argv.cmd = "delete"
    /\ ~argv.hasPrompt
    /\ prompts' = prompts + 1
    /\ \/ /\ Return(IOError)
          /\ UNCHANGED line
       \/ \E l \in Lines :
              /\ line' = l
              /\ pc' = "confirm"
              /\ UNCHANGED result
    /\ UNCHANGED <<argv, disk, loadResult, loaded, saved, watchlists, out,
                   writes, exitCode, i, results, index>>

\* "y"
Yes == <<121>>

\* A confirmation that takes the empty response for a yes.
ConfirmedByDefault(text) == to_lowercase(text) \in {Yes, <<>>}

\* The match on the lower-cased response: the "y" arm.
Confirmed(text) == to_lowercase(text) = Yes

ConfirmAct ==
    /\ pc = "confirm"
    /\ \/ /\ Confirmed(input(line, TRUE))
          /\ LET r == list_remove(watchlists, argv.list)
             IN  /\ watchlists' = r.w
                 /\ out' = IF r.res = Ok THEN Append(out, PrintLine("Deleted List")) ELSE out
                 /\ Return(r.res)
       \/ /\ ~Confirmed(input(line, TRUE))
          /\ out' = Append(out, PrintLine("Deleting Cancelled"))
          /\ Return(Ok)
          /\ UNCHANGED watchlists
    /\ UNCHANGED <<argv, disk, loadResult, loaded, saved, writes, exitCode,
                   i, results, index, line, prompts>>

(***************************************************************************)
(* main: the message for a domain error, then the write-back.              *)
(***************************************************************************)
Report ==
    /\ pc = "report"
    /\ out' = IF result # Ok THEN Append(out, PrintError(result)) ELSE out
    /\ pc' = "save"
    /\ UNCHANGED <<argv, disk, loadResult, loaded, saved, watchlists, result,
                   writes, exitCode, i, results, index, line, prompts>>

\* An exit code that a domain error of cli_run also makes non-zero.
ExitOnSaveOrError(r) == IF r = Ok /\ result = Ok THEN 0 ELSE 1

\* main's exit code once to_file has returned r.
ExitOnSave(r) == IF r = Ok THEN 0 ELSE 1

\* to_file: File::create may fail (the path is left as it was), the write
\* into the truncated file may fail (the file is left undecodable), or the
\* collection is stored.
Save ==
    /\ pc = "save"
    /\ writes' = writes + 1
    /\ \/ /\ disk' = [kind |-> "file", data |-> watchlists]
          /\ saved' = Ok
       \/ /\ UNCHANGED disk
          /\ saved' = IOError
       \/ /\ disk' = [kind |-> "bad", data |-> EmptyWatchList]
          /\ saved' = IOError
    /\ exitCode' = ExitOnSave(saved')
    /\ pc' = "exit"
    /\ UNCHANGED <<argv, loadResult, loaded, watchlists, result, out, i,
                   results, index, line, prompts>>

Next ==
    \/ Load
    \/ Parse
    \/ RunNew
    \/ AddItem
    \/ AddDone
    \/ RunShow
    \/ RunRandomNamed
    \/ RunRandomAny
    \/ RunSearch
    \/ DeleteSearch
    \/ SelectRead
    \/ DeleteItem
    \/ ConfirmRead
    \/ ConfirmAct
    \/ Report
    \/ Save

Spec == Init /\ [][Next]_vars

\* The invocations of the random subcommand (and those that end in the
\* argument parser), with the fairness of one run.  The process is
\* single-threaded and keeps running: a step of main that can be taken is
\* taken.  The titles are drawn uniformly at random, so a loop of random that
\* can draw a title with items does so in the end: the turns that draw an
\* empty list leave every variable as it was, and weak fairness of the
\* loop's action is fairness of its turns that leave the loop.
RandomRequests == {a \in Requests : a.cmd \in {"random", "help", "bogus"}}

InitRandom == Init /\ argv \in RandomRequests

NextRandom ==
    \/ Load
    \/ Parse
    \/ RunRandomNamed
    \/ RunRandomAny
    \/ Report
    \/ Save

SpecRandom ==
    /\ InitRandom
    /\ [][NextRandom]_vars
    /\ WF_vars(Load)
    /\ WF_vars(Parse)
    /\ WF_vars(RunRandomNamed)
    /\ WF_vars(RunRandomAny)
    /\ WF_vars(Report)
    /\ WF_vars(Save)

(***************************************************************************)
(* The data core on its own: one call of one of the library's operations   *)
(* on any collection, as the crate's unit tests make them.  argv holds the *)
(* call, loaded the collection before it, result and results what it       *)
(* returned.                                                               *)
(***************************************************************************)
NoCall == Req("none", FALSE, NoTitle, <<>>, FALSE, FALSE, <<>>)

CoreInit ==
    /\ argv = NoCall
    /\ disk = [kind |-> "absent", data |-> EmptyWatchList]
    /\ loadResult = "Pending"
    /\ watchlists \in Collections
    /\ loaded = watchlists
    /\ pc = "core"
    /\ result = Pending
    /\ out = <<>>
    /\ writes = 0
    /\ saved = Pending
    /\ exitCode = -1
    /\ i = 0
    /\ results = <<>>
    /\ index = 0
    /\ line = <<>>
    /\ prompts = 0

CoreFrame ==
    /\ pc' = "returned"
    /\ UNCHANGED <<disk, loadResult, out, writes, saved, exitCode,
                   i, index, line, prompts>>

CallItemAdd ==
    /\ pc = "core"
    /\ \E t \in Titles, it \in Items, f \in BOOLEAN :
           /\ argv' = Req("item_add", TRUE, t, <<it>>, f, FALSE, <<>>)
           /\ loaded' = watchlists
           /\ watchlists' = item_add(watchlists, t, it, f).w
           /\ result' = item_add(watchlists, t, it, f).res
           /\ results' = <<>>
    /\ CoreFrame

CallItemRemove ==
    /\ pc = "core"
    /\ \E t \in Titles, it \in Items :
           /\ argv' = Req("item_remove", TRUE, t, <<it>>, FALSE, FALSE, <<>>)
           /\ loaded' = watchlists
           /\ watchlists' = item_remove(watchlists, t, it).w
           /\ result' = item_remove(watchlists, t, it).res
           /\ results' = <<>>
    /\ CoreFrame

CallListAdd ==
    /\ pc = "core"
    /\ \E t \in Titles :
           /\ argv' = Req("list_add", TRUE, t, <<>>, FALSE, FALSE, <<>>)
           /\ loaded' = watchlists
           /\ watchlists' = list_add(watchlists, t).w
           /\ result' = list_add(watchlists, t).res
           /\ results' = <<>>
    /\ CoreFrame

CallListRemove ==
    /\ pc = "core"
    /\ \E t \in Titles :
           /\ argv' = Req("list_remove", TRUE, t, <<>>, FALSE, FALSE, <<>>)
           /\ loaded' = watchlists
           /\ watchlists' = list_remove(watchlists, t).w
           /\ result' = list_remove(watchlists, t).res
           /\ results' = <<>>
    /\ CoreFrame

CallListSearch ==
    /\ pc = "core"
    /\ \E t \in Titles, p \in Prompts :
           /\ argv' = Req("list_search", TRUE, t, <<>>, FALSE, TRUE, p)
           /\ loaded' = watchlists
           /\ result' = list_search(watchlists, t, p).res
           /\ results' = list_search(watchlists, t, p).found
           /\ UNCHANGED watchlists
    /\ CoreFrame

CoreNext ==
    \/ CallItemAdd
    \/ CallItemRemove
    \/ CallListAdd
    \/ CallListRemove
    \/ CallListSearch

SpecCore == CoreInit /\ [][CoreNext]_vars

(***************************************************************************)
(* The properties checked.                                                 *)
(***************************************************************************)
Elems(list) == {list[k] : k \in 1..Len(list)}

Count(x, list) == Cardinality({k \in 1..Len(list) : list[k] = x})

\* list without its k-th element
Without(list, k) ==
    [j \in 1..(Len(list) - 1) |-> IF j < k THEN list[j] ELSE list[j + 1]]

\* The lowest index of list holding x (x occurs in list).
FirstIndexOf(list, x) ==
    CHOOSE k \in 1..Len(list) : list[k] = x /\ \A j \in 1..(k - 1) : list[j] # x

\* w and v hold the same titles and agree on every list but T's.
SameExcept(w, v, T) ==
    /\ DOMAIN w = DOMAIN v
    /\ \A t \in DOMAIN w \ {T} : w[t] = v[t]

Stored(w) == [kind |-> "file", data |-> w]

Returned == pc \in {"report", "save", "exit"} /\ result # Pending

\* C1: when the load gave a collection and the arguments parsed, to_file is
\* called exactly once, only once cli_run has returned (with Ok or with any
\* domain error), with the collection as cli_run left it; and when that write
\* succeeds the exit code is 0 whatever cli_run returned.
C1_WriteBackOnceAfterDispatch ==
    /\ writes = (IF pc = "exit" /\ result # Pending THEN 1 ELSE 0)
    /\ result # Pending =>
           loadResult \in {"Ok", "NotFound"} /\ ParseOutcome(argv) = "ok"
    /\ (pc = "exit" /\ loadResult \in {"Ok", "NotFound"}
                    /\ ParseOutcome(argv) = "ok") =>
           /\ result # Pending
           /\ writes = 1
           /\ saved # Pending
           /\ saved = Ok => exitCode = 0 /\ disk = Stored(watchlists)

\* C1's case: a domain error, the partly updated collection written, exit 0.
C1_Witness ==
    /\ pc = "exit"
    /\ result.tag = "ItemAlreadyPresent"
    /\ watchlists # loaded
    /\ saved = Ok
    /\ writes = 1
    /\ exitCode = 0
    /\ disk = Stored(watchlists)

\* The index of the first of its whose addition to a list holding old fails
\* without the duplicate flag, 0 when none does.
FirstRejected(old, its) ==
    LET bad == {k \in 1..Len(its) :
                   its[k] \in Elems(old) \cup {its[j] : j \in 1..(k - 1)}}
    IN  IF bad = {} THEN 0 ELSE CHOOSE k \in bad : \A j \in bad : k <= j

\* C2: add T i1..in adds the items one at a time in argument order; when the
\* k-th addition is the first to fail the command returns that error, i1..i(k-1)
\* stay appended to T in order, i(k+1)..in are never added, and this partly
\* updated list is what is written to storage.
C2_AddAbortsAtFirstFailure ==
    (argv.cmd = "add" /\ Returned) =>
        LET T == argv.list
            its == argv.items
        IN  /\ IF T \notin DOMAIN loaded
               THEN result = TitleNotPresent(T) /\ watchlists = loaded
               ELSE LET k == IF argv.flag THEN 0 ELSE FirstRejected(loaded[T], its)
                    IN  /\ SameExcept(watchlists, loaded, T)
                        /\ k = 0 => /\ result = Ok
                                    /\ watchlists[T] = loaded[T] \o its
                        /\ k > 0 => /\ result = ItemAlreadyPresent(its[k], T)
                                    /\ watchlists[T] = loaded[T] \o SubSeq(its, 1, k - 1)
            /\ (pc = "exit" /\ saved = Ok) => disk = Stored(watchlists)

\* C2's case: three items, the second fails, the first is stored, the third
\* is not.
C2_Witness ==
    /\ argv.cmd = "add"
    /\ Len(argv.items) = 3
    /\ argv.list \in DOMAIN loaded
    /\ argv.items[3] \notin Elems(loaded[argv.list]) \cup {argv.items[1], argv.items[2]}
    /\ pc = "exit"
    /\ result = ItemAlreadyPresent(argv.items[2], argv.list)
    /\ saved = Ok
    /\ disk = Stored(watchlists)
    /\ watchlists[argv.list] = Append(loaded[argv.list], argv.items[1])

\* C3: item_add(T, I, flag) on a list T that exists: without the flag and with
\* I already in T it fails with ItemAlreadyPresent(I, T) and leaves T as it
\* was; in every other case it succeeds and T becomes the old sequence with I
\* appended.  On an absent T it fails with TitleNotPresent(T).  So adding I
\* twice leaves one occurrence without the flag and two with it.
C3_ItemAdd ==
    [][LET T == argv.list
           f == argv.flag
       IN  /\ (pc = "dispatch" /\ argv.cmd = "add" /\ i < Len(argv.items)) =>
                  LET I == argv.items[i + 1]
                  IN  /\ T \notin DOMAIN watchlists =>
                             /\ result' = TitleNotPresent(T)
                             /\ watchlists' = watchlists
                      /\ (T \in DOMAIN watchlists /\ ~f /\ I \in Elems(watchlists[T])) =>
                             /\ result' = ItemAlreadyPresent(I, T)
                             /\ watchlists' = watchlists
                      /\ (T \in DOMAIN watchlists /\ (f \/ I \notin Elems(watchlists[T]))) =>
                             /\ result' = Pending
                             /\ i' = i + 1
                             /\ watchlists' = [watchlists EXCEPT ![T] = Append(@, I)]
           /\ (/\ pc' = "report"
               /\ argv.cmd = "add"
               /\ Len(argv.items) = 2
               /\ argv.items[1] = argv.items[2]
               /\ T \in DOMAIN loaded
               /\ argv.items[1] \notin Elems(loaded[T])) =>
                  Count(argv.items[1], watchlists'[T]) = IF f THEN 2 ELSE 1
      ]_vars

\* C3's case: the same item given twice with the flag, and added twice.
C3_Witness ==
    /\ argv.cmd = "add"
    /\ argv.flag
    /\ Len(argv.items) = 2
    /\ argv.items[1] = argv.items[2]
    /\ pc = "report"
    /\ result = Ok
    /\ Count(argv.items[1], loaded[argv.list]) = 0
    /\ Count(argv.items[1], watchlists[argv.list]) = 2

\* C4: item_remove(T, I) on a list T that holds I removes exactly the
\* lowest-index element equal to I, keeps every other element (later
\* duplicates of I too) in order and leaves every other list alone; when I is
\* not in T it fails with ItemToRemoveNotPresent(I), when T is absent with
\* TitleNotPresent(T), and the collection is left as it was.
C4_ItemRemove ==
    argv.cmd = "item_remove" =>
        LET T == argv.list
            I == argv.items[1]
        IN  IF T \notin DOMAIN loaded
            THEN result = TitleNotPresent(T) /\ watchlists = loaded
            ELSE IF I \notin Elems(loaded[T])
            THEN result = ItemToRemoveNotPresent(I) /\ watchlists = loaded
            ELSE /\ result = Ok
                 /\ SameExcept(watchlists, loaded, T)
                 /\ watchlists[T] = Without(loaded[T], FirstIndexOf(loaded[T], I))

\* C4's case: the item removed occurs twice, with another item before it.
C4_Witness ==
    /\ argv.cmd = "item_remove"
    /\ result = Ok
    /\ Len(loaded[argv.list]) = 3
    /\ Count(argv.items[1], loaded[argv.list]) = 2
    /\ loaded[argv.list][1] # argv.items[1]
    /\ loaded[argv.list][3] = argv.items[1]
    /\ Count(argv.items[1], watchlists[argv.list]) = 1

ShowList == argv.cmd = "show" /\ argv.hasList /\ ~argv.flag

\* What show <L> printed on standard output is exactly L's items under L.
RenderedOnly(L, items) ==
    /\ out # <<>>
    /\ out[1] = list_display(items, L)
    /\ \A k \in 2..Len(out) : out[k][1] = "eprint"

NothingRendered == \A k \in 1..Len(out) : out[k][1] = "eprint"

\* C5 as claimed: show <L> on any collection, the empty one too, fails with
\* TitleNotPresent(L) when L is no title, with EmptyList(L) when L has no
\* items, and otherwise renders exactly L's items in order under L; no other
\* error is returned.
C5_ShowListAsClaimed ==
    (ShowList /\ Returned) =>
        LET L == argv.list
        IN  IF L \notin DOMAIN loaded
            THEN result = TitleNotPresent(L) /\ NothingRendered
            ELSE IF loaded[L] = <<>>
            THEN result = EmptyList(L) /\ NothingRendered
            ELSE result = Ok /\ RenderedOnly(L, loaded[L])

\* C5, amended: show <L> on a collection without lists fails with NoTitles;
\* on a collection with at least one list it fails with TitleNotPresent(L)
\* when L is no title, with EmptyList(L) when L has no items, and otherwise
\* renders exactly L's items in order under L.  No other error is returned
\* and the collection is left as it was.
C5_ShowList ==
    (ShowList /\ Returned) =>
        LET L == argv.list
        IN  /\ watchlists = loaded
            /\ IF DOMAIN loaded = {}
               THEN result = NoTitles /\ NothingRendered
               ELSE IF L \notin DOMAIN loaded
               THEN result = TitleNotPresent(L) /\ NothingRendered
               ELSE IF loaded[L] = <<>>
               THEN result = EmptyList(L) /\ NothingRendered
               ELSE result = Ok /\ RenderedOnly(L, loaded[L])

\* C5's case: show <L> on the collection without lists.
C5_Witness ==
    /\ ShowList
    /\ pc = "save"
    /\ DOMAIN loaded = {}
    /\ result = NoTitles
    /\ out = <<PrintError(NoTitles)>>

DeletedByPrompt ==
    /\ argv.cmd = "delete"
    /\ argv.hasPrompt
    /\ pc \in {"report", "save", "exit"}
    /\ index > 0

\* The index chosen by the raw line l: 1 for a blank line, else its number.
ChosenIndex(l) == IF trim(l) = <<>> THEN 1 ELSE parse_usize(trim(l))

\* The position in list of its n-th item matching the prompt p.
NthMatchPosition(list, p, n) ==
    CHOOSE k \in 1..Len(list) :
        /\ Matches(list[k], p)
        /\ Cardinality({j \in 1..k : Matches(list[j], p)}) = n

\* C6 as claimed: delete <list> <prompt> with the index n chosen removes the
\* element at the position of the n-th match, and every other element, other
\* items of the same text too, keeps its place.
C6_DeleteAsClaimed ==
    DeletedByPrompt =>
        LET T == argv.list
            pos == NthMatchPosition(loaded[T], argv.prompt, ChosenIndex(line))
        IN  /\ result = Ok
            /\ SameExcept(watchlists, loaded, T)
            /\ watchlists[T] = Without(loaded[T], pos)

\* C6, amended: delete <list> <prompt> with the index n chosen removes the
\* lowest-index element of the list whose text equals the text of the n-th
\* match (the n-th match itself unless an item of the same text precedes it),
\* and every other element keeps its relative position; every other list is
\* left alone.  With a blank response n is 1 and the first match is removed.
C6_DeleteByText ==
    DeletedByPrompt =>
        LET T == argv.list
            pos == NthMatchPosition(loaded[T], argv.prompt, ChosenIndex(line))
            first == FirstIndexOf(loaded[T], loaded[T][pos])
        IN  /\ result = Ok
            /\ SameExcept(watchlists, loaded, T)
            /\ watchlists[T] = Without(loaded[T], first)
            /\ trim(line) = <<>> =>
                   /\ pos = first
                   /\ \A j \in 1..(pos - 1) : ~Matches(loaded[T][j], argv.prompt)

\* C6's case: the second match is chosen and an item of the same text stands
\* before it, with another item between the two.
C6_Witness ==
    /\ DeletedByPrompt
    /\ ChosenIndex(line) = 2
    /\ LET T == argv.list
           pos == NthMatchPosition(loaded[T], argv.prompt, 2)
       IN  /\ FirstIndexOf(loaded[T], loaded[T][pos]) # pos
           /\ watchlists[T] # Without(loaded[T], pos)
           /\ watchlists[T] = Tail(loaded[T])

\* C7: list_search(T, s) on a list T that exists gives exactly the items of T,
\* in list order, whose text contains s once both are brought to the same
\* case, for every item and search string (upper-case letters outside ASCII
\* too), so the search for the text of an item of T finds that item; no match
\* gives an empty result and no error.
C7_SearchCaseInsensitive ==
    (argv.cmd = "search" /\ Returned /\ argv.list \in DOMAIN loaded) =>
        /\ result = Ok
        /\ results = SelectSeq(loaded[argv.list],
                         LAMBDA it : contains(to_lowercase(it), to_lowercase(argv.prompt)))
        /\ argv.prompt \in Elems(loaded[argv.list]) => argv.prompt \in Elems(results)

DeleteList == argv.cmd = "delete" /\ ~argv.hasPrompt

\* C8: delete <list> without a prompt removes the list if and only if the
\* response the console helper returned, lower-cased, is "y" and the list
\* exists; any other response (the empty line too) leaves the collection as it
\* was and the command succeeds with "Deleting Cancelled"; "y" for an absent
\* list fails with TitleNotPresent and leaves the collection as it was.  The
\* response is read before any mutation.
C8_ConfirmedListDelete ==
    (DeleteList /\ pc # "load") =>
        LET T == argv.list
            answer == trim(line)
        IN  /\ (prompts = 0 \/ pc = "confirm") =>
                   watchlists = loaded /\ result = Pending
            /\ Returned =>
                   /\ prompts = 1
                   /\ IF result = IOError
                      THEN watchlists = loaded
                      ELSE IF answer \in {<<121>>, <<89>>}
                      THEN IF T \in DOMAIN loaded
                           THEN /\ result = Ok
                                /\ watchlists = [t \in DOMAIN loaded \ {T} |-> loaded[t]]
                           ELSE /\ result = TitleNotPresent(T)
                                /\ watchlists = loaded
                      ELSE /\ result = Ok
                           /\ watchlists = loaded
                           /\ out[1] = PrintLine("Deleting Cancelled")

\* C8's case: the response " Y" with its newline removes a list that exists.
C8_Witness ==
    /\ DeleteList
    /\ pc = "report"
    /\ line = <<32, 89, 10>>
    /\ result = Ok
    /\ argv.list \in DOMAIN loaded
    /\ loaded[argv.list] # <<>>
    /\ argv.list \notin DOMAIN watchlists

\* C9: when the load fails because the storage path is a directory the
\* diagnostic is printed, neither the argument parser nor any subcommand is
\* reached whatever the arguments are, nothing is written and the exit code is
\* 0; any other load failure than not-found gives a non-zero exit code, also
\* without a subcommand or a write.
C9_LoadFailureEndsTheRun ==
    /\ (pc # "load" /\ disk.kind = "dir") => loadResult = "IsADirectory"
    /\ (pc # "load" /\ disk.kind = "bad" /\ writes = 0) => loadResult = "Other"
    /\ loadResult \in {"IsADirectory", "Other"} =>
           /\ pc = "exit"
           /\ result = Pending
           /\ watchlists = EmptyWatchList
           /\ prompts = 0
           /\ writes = 0
           /\ saved = Pending
           /\ disk.kind = (IF loadResult = "Other" THEN "bad" ELSE "dir")
    /\ loadResult = "IsADirectory" =>
           /\ exitCode = 0
           /\ out = <<PrintLine("Error! Couldnt Find File!")>>
    /\ loadResult = "Other" =>
           /\ exitCode > 0
           /\ out = <<>>

\* C9's case: the path is a directory and the arguments would not parse.
C9_Witness ==
    /\ disk.kind = "dir"
    /\ ParseOutcome(argv) = "usage"
    /\ pc = "exit"
    /\ exitCode = 0
    /\ writes = 0

\* The raw line l is a blank line or a number in 1..m.
ValidChoice(l, m) == trim(l) = <<>> \/ parse_usize(trim(l)) \in 1..m

\* C10: in the selection loop over m >= 1 matches a response that, trimmed,
\* is neither empty nor an integer in 1..m brings another prompt and leaves
\* the collection as it was; the loop ends only with a blank response (the
\* index 1; an end-of-input read is one), with a valid n (the index n) or
\* with a console IOError; item_remove is called once, after the loop, and
\* only for a valid selection.  Without matches no prompt is issued and the
\* collection is left as it was.
C10_SelectionLoop ==
    [][/\ pc = "select" =>
              /\ Len(results) >= 1
              /\ watchlists' = watchlists
              /\ prompts' = prompts + 1
              /\ \/ /\ result' = IOError
                    /\ pc' = "report"
                    /\ index' = 0
                 \/ /\ result' = Pending
                    /\ IF ValidChoice(line', Len(results))
                       THEN pc' = "remove" /\ index' = ChosenIndex(line')
                       ELSE pc' = "select" /\ index' = 0
       /\ pc = "remove" =>
              /\ ValidChoice(line, Len(results))
              /\ pc' = "report"
              /\ result' = Ok
              /\ Len(watchlists'[argv.list]) = Len(watchlists[argv.list]) - 1
       /\ (argv.cmd = "delete" /\ argv.hasPrompt /\ watchlists' # watchlists) =>
              pc \in {"load", "remove"}
       /\ (argv.cmd = "delete" /\ argv.hasPrompt /\ pc = "dispatch"
              /\ results' = <<>>) =>
              /\ pc' = "report"
              /\ result' \in {Ok, TitleNotPresent(argv.list)}
              /\ prompts' = 0
              /\ watchlists' = watchlists
      ]_vars

\* C10's case: a response that is refused, then a second prompt answered
\* with " 2 ", and the removal.
C10_Witness ==
    /\ DeletedByPrompt
    /\ pc = "report"
    /\ prompts = 2
    /\ line = <<32, 50, 32, 10>>
    /\ index = 2
    /\ result = Ok
    /\ Len(watchlists[argv.list]) = Len(loaded[argv.list]) - 1

RandomAny == argv.cmd = "random" /\ ~argv.hasList

\* The random loop is about to run on a collection it can leave: there is
\* no list at all, or some list has an item.
RandomCanEnd ==
    /\ RandomAny
    /\ pc = "dispatch"
    /\ (DOMAIN watchlists = {} \/ \E t \in DOMAIN watchlists : watchlists[t] # <<>>)

\* The random loop is running on lists that are all empty.
RandomCannotEnd ==
    /\ RandomAny
    /\ pc = "dispatch"
    /\ DOMAIN watchlists # {}
    /\ \A t \in DOMAIN watchlists : watchlists[t] = <<>>

\* C11: random without a name ends, the titles being drawn fairly, if and
\* only if the collection has no lists, and then it fails with NoTitles, or
\* has a list with items, and then it prints an item of a list of the
\* collection that has items and never fails with EmptyList.  On one or more
\* lists that are all empty the loop never exits: no result, no error and no
\* write-back is reached.  The loop never changes the collection.
C11_RandomLoop ==
    /\ RandomCanEnd ~> (pc = "exit" /\ result # Pending /\ writes = 1)
    /\ [][RandomCannotEnd => UNCHANGED vars]_vars
    /\ [][(RandomAny /\ pc = "dispatch") =>
              /\ watchlists' = watchlists
              /\ pc' = "report"
              /\ IF DOMAIN watchlists = {}
                 THEN result' = NoTitles /\ out' = out
                 ELSE /\ result' = Ok
                      /\ \E t \in DOMAIN watchlists :
                             /\ watchlists[t] # <<>>
                             /\ \E x \in Elems(watchlists[t]) :
                                    out' = Append(out, PrintItem(x))
         ]_vars

\* C11's case: one list is empty, the other is not, and an item of the
\* other has been printed.
C11_Witness ==
    /\ RandomAny
    /\ pc = "report"
    /\ result = Ok
    /\ watchlists = loaded
    /\ \E t \in DOMAIN loaded : loaded[t] = <<>>
    /\ \E t \in DOMAIN loaded :
           /\ loaded[t] # <<>>
           /\ \E x \in Elems(loaded[t]) : out = <<PrintItem(x)>>

====
